---- MODULE Spec2Model ----
(***************************************************************************)
(* The two webhook tool adapters of the repository, N8NTool and            *)
(* JobSearchTool (src/unnamed/part_001): construction from constructor     *)
(* fields and environment variables, and _call: schema validation, one     *)
(* outbound POST, and the mapping of the POST's outcome to the returned    *)
(* string.                                                                 *)
(***************************************************************************)
EXTENDS Integers, Sequences, FiniteSets, TLC

VARIABLES
    fields,   \* the object given to the constructor
    env,      \* the process environment read by getEnvironmentVariable
    tool,     \* the adapter instance, NoTool before/without construction
    ctorErr,  \* the Error thrown by the constructor, None if none
    calls,    \* the invocations of _call, in the order they were made
    network,  \* the outbound POST requests issued so far, in order
    clock     \* number of Date readings so far (new Date().toISOString())

vars == <<fields, env, tool, ctorErr, calls, network, clock>>

(***************************************************************************)
(* JavaScript values.  A string, number or boolean carries its value in v; *)
(* an object carries a function from its own property names to values; an  *)
(* array carries a sequence.                                               *)
(***************************************************************************)
Undefined == [t |-> "undefined"]
Str(s) == [t |-> "string", v |-> s]
Num(n) == [t |-> "number", v |-> n]
Bool(b) == [t |-> "boolean", v |-> b]
Obj(f) == [t |-> "object", v |-> f]
Arr(s) == [t |-> "array", v |-> s]
EmptyObj == Obj([k \in {} |-> Undefined])

None == [t |-> "none"]
NoTool == [t |-> "notool"]

\* !x
Falsy(x) ==
    \/ x.t = "undefined"
    \/ x.t = "string" /\ x.v = ""
    \/ x.t = "number" /\ x.v = 0
    \/ x.t = "boolean" /\ x.v = FALSE

Truthy(x) == ~Falsy(x)

\* a ?? b
Coalesce(a, b) == IF a.t = "undefined" THEN b ELSE a

\* a || b
OrElse(a, b) == IF Truthy(a) THEN a ELSE b

\* obj[key] of a plain object given as a function from its own keys
Get(f, key) == IF key \in DOMAIN f THEN f[key] ELSE Undefined

\* `${x}` for the values interpolated by the adapters
Template(x) ==
    CASE x.t = "string" -> x.v
      [] x.t = "number" -> ToString(x.v)
      [] OTHER -> x.t

(***************************************************************************)
(* JSON.  JSON.stringify leaves out the properties of an object whose      *)
(* value is undefined and yields undefined (no string) for undefined       *)
(* itself; the text of a JSON string is represented by the value it        *)
(* denotes, and JSON.parse gives that value back.                          *)
(***************************************************************************)
RECURSIVE Serial(_)
Serial(x) ==
    CASE x.t = "object" ->
           Obj([k \in {p \in DOMAIN x.v : x.v[p] # Undefined} |-> Serial(x.v[k])])
      [] x.t = "array" ->
           Arr([i \in DOMAIN x.v |->
                  IF x.v[i] = Undefined THEN [t |-> "null"] ELSE Serial(x.v[i])])
      [] OTHER -> x

JsonText(j) == [t |-> "string", json |-> j]

JSON_stringify(x) == IF x = Undefined THEN Undefined ELSE JsonText(Serial(x))

JSON_parse(s) == s.json

IsJsonString(x) == x.t = "string" /\ "json" \in DOMAIN x

(***************************************************************************)
(* The part of zod the two schemas use: z.string(), z.number(),            *)
(* z.boolean(), z.array(z.string()), .optional(), z.object(shape) (which   *)
(* drops unrecognized keys) and .passthrough() (which keeps them).  A      *)
(* shape is the sequence of its [key, schema] entries in source order.     *)
(***************************************************************************)
z_string == [z |-> "string"]
z_number == [z |-> "number"]
z_boolean == [z |-> "boolean"]
z_array(s) == [z |-> "array", element |-> s]
optional(s) == [z |-> "optional", inner |-> s]
z_object(shape) == [z |-> "object", shape |-> shape, unknownKeys |-> "strip"]
\* an object schema left in its default mode, which drops unrecognized keys
passthrough_forgotten(s) == s

passthrough(s) == [s EXCEPT !.unknownKeys = "passthrough"]

ShapeKeys(shape) == {shape[i].key : i \in DOMAIN shape}

Issue(path, x, expected) ==
    <<[path |-> path,
       message |-> IF x = Undefined THEN "Required"
                   ELSE "Expected " \o expected \o ", received " \o x.t]>>

RECURSIVE ZParse(_, _, _)
RECURSIVE ZShapeIssues(_, _, _, _)
RECURSIVE ZElementIssues(_, _, _, _)

\* the issues of the shape's entries i.. against the properties f, in order
ZShapeIssues(shape, f, path, i) ==
    IF i > Len(shape) THEN <<>>
    ELSE ZParse(shape[i].schema, Get(f, shape[i].key), Append(path, shape[i].key)).issues
         \o ZShapeIssues(shape, f, path, i + 1)

\* the issues of the array elements i.. of a, in order
ZElementIssues(s, a, path, i) ==
    IF i > Len(a) THEN <<>>
    ELSE ZParse(s, a[i], Append(path, ToString(i - 1))).issues
         \o ZElementIssues(s, a, path, i + 1)

\* the value zod gives for property k of a parsed object
ZProperty(schema, f, k, path) ==
    LET known == {i \in DOMAIN schema.shape : schema.shape[i].key = k}
    IN  IF known = {} THEN f[k]
        ELSE LET i == CHOOSE j \in known : TRUE
             IN  ZParse(schema.shape[i].schema, f[k], Append(path, k)).data

\* the own keys of the object zod gives for the input properties f
ZKeptKeys(schema, f) ==
    IF schema.unknownKeys = "passthrough" THEN DOMAIN f
    ELSE DOMAIN f \cap ShapeKeys(schema.shape)

ZParse(schema, x, path) ==
    CASE schema.z = "optional" ->
           IF x = Undefined THEN [issues |-> <<>>, data |-> Undefined]
           ELSE ZParse(schema.inner, x, path)
      [] schema.z \in {"string", "number", "boolean"} ->
           IF x.t = schema.z THEN [issues |-> <<>>, data |-> x]
           ELSE [issues |-> Issue(path, x, schema.z), data |-> Undefined]
      [] schema.z = "array" ->
           IF x.t # "array" THEN [issues |-> Issue(path, x, "array"), data |-> Undefined]
           ELSE [issues |-> ZElementIssues(schema.element, x.v, path, 1), data |-> x]
      [] schema.z = "object" ->
           IF x.t # "object" THEN [issues |-> Issue(path, x, "object"), data |-> Undefined]
           ELSE [issues |-> ZShapeIssues(schema.shape, x.v, path, 1),
                 data |-> Obj([k \in ZKeptKeys(schema, x.v) |->
                                 ZProperty(schema, x.v, k, path)])]

\* a safeParse that accepts every input
safeParse_unchecked(schema, input) == [success |-> TRUE, data |-> input]

\* schema.safeParse(input)
safeParse(schema, input) ==
    LET r == ZParse(schema, input, <<>>)
    IN  IF r.issues = <<>> THEN [success |-> TRUE, data |-> r.data]
        ELSE [success |-> FALSE, error |-> [issues |-> r.issues]]

RECURSIVE Join(_, _)
\* array.join(sep) of a sequence of strings
Join(strs, sep) ==
    IF strs = <<>> THEN ""
    ELSE IF Len(strs) = 1 THEN strs[1]
    ELSE strs[1] \o sep \o Join(Tail(strs), sep)

\* the Error thrown by _call for a failed validation
ValidationError(issues) ==
    [name |-> "Error",
     message |-> "Input validation failed: " \o
                 Join([i \in DOMAIN issues |->
                         Join(issues[i].path, ".") \o ": " \o issues[i].message], ", ")]

\* this.schema of N8NTool
N8NSchema ==
    z_object(<<
      [key |-> "workflow_data", schema |->
         passthrough(z_object(<<
           [key |-> "position", schema |-> optional(z_string)],
           [key |-> "location", schema |-> optional(z_string)],
           [key |-> "skills", schema |-> optional(z_array(z_string))],
           [key |-> "experience_level", schema |-> optional(z_string)],
           [key |-> "job_type", schema |-> optional(z_string)],
           [key |-> "salary_min", schema |-> optional(z_number)],
           [key |-> "salary_max", schema |-> optional(z_number)],
           [key |-> "remote", schema |-> optional(z_boolean)] >>))],
      [key |-> "workflow_name", schema |-> optional(z_string)] >>)

\* a schema whose query may be left out
JobSearchSchema_optionalQuery ==
    z_object(<< [key |-> "query", schema |-> optional(z_string)] >>)

\* this.schema of JobSearchTool
JobSearchSchema == z_object(<< [key |-> "query", schema |-> z_string] >>)

(***************************************************************************)
(* Construction.                                                           *)
(***************************************************************************)
envVarWebhookUrl == "N8N_WEBHOOK_URL"
envVarJobSearchWebhookUrl == "N8N_JOB_SEARCH_WEBHOOK_URL"
envVarApiKey == "N8N_API_KEY"
envVarTimeout == "N8N_TIMEOUT"

DefaultTimeout == 30000

\* getEnvironmentVariable(name) in the environment e
getEnvironmentVariable(e, name) == Get(e, name)

\* a constructor that does not read N8N_TIMEOUT from the environment
N8NToolConfig_noEnvTimeout(f, e) ==
    [class |-> "N8NTool",
     name |-> "n8n_workflow",
     override |-> Coalesce(Get(f, "override"), Bool(FALSE)),
     webhookUrl |-> Coalesce(Get(f, envVarWebhookUrl),
                             getEnvironmentVariable(e, envVarWebhookUrl)),
     apiKey |-> Coalesce(Get(f, envVarApiKey), getEnvironmentVariable(e, envVarApiKey)),
     timeout |-> Coalesce(Get(f, envVarTimeout), Num(DefaultTimeout))]

\* the instance fields N8NTool's constructor assigns from fields f and environment e
N8NToolConfig(f, e) ==
    [class |-> "N8NTool",
     name |-> "n8n_workflow",
     override |-> Coalesce(Get(f, "override"), Bool(FALSE)),
     webhookUrl |-> Coalesce(Get(f, envVarWebhookUrl),
                             getEnvironmentVariable(e, envVarWebhookUrl)),
     apiKey |-> Coalesce(Get(f, envVarApiKey), getEnvironmentVariable(e, envVarApiKey)),
     timeout |-> Coalesce(Get(f, envVarTimeout),
                          Coalesce(getEnvironmentVariable(e, envVarTimeout),
                                   Num(DefaultTimeout)))]

\* a constructor that chains its URL sources with || instead of ??
JobSearchToolConfig_skipEmpty(f, e) ==
    [class |-> "JobSearchTool",
     name |-> "job_search",
     override |-> Coalesce(Get(f, "override"), Bool(FALSE)),
     webhookUrl |->
        OrElse(Get(f, envVarJobSearchWebhookUrl),
        OrElse(getEnvironmentVariable(e, envVarJobSearchWebhookUrl),
        OrElse(Get(f, envVarWebhookUrl),
               getEnvironmentVariable(e, envVarWebhookUrl)))),
     apiKey |-> Coalesce(Get(f, envVarApiKey), getEnvironmentVariable(e, envVarApiKey)),
     timeout |-> Coalesce(Get(f, envVarTimeout),
                          Coalesce(getEnvironmentVariable(e, envVarTimeout),
                                   Num(DefaultTimeout)))]

\* the instance fields JobSearchTool's constructor assigns
JobSearchToolConfig(f, e) ==
    [class |-> "JobSearchTool",
     name |-> "job_search",
     override |-> Coalesce(Get(f, "override"), Bool(FALSE)),
     webhookUrl |->
        Coalesce(Get(f, envVarJobSearchWebhookUrl),
        Coalesce(getEnvironmentVariable(e, envVarJobSearchWebhookUrl),
        Coalesce(Get(f, envVarWebhookUrl),
                 getEnvironmentVariable(e, envVarWebhookUrl)))),
     apiKey |-> Coalesce(Get(f, envVarApiKey), getEnvironmentVariable(e, envVarApiKey)),
     timeout |-> Coalesce(Get(f, envVarTimeout),
                          Coalesce(getEnvironmentVariable(e, envVarTimeout),
                                   Num(DefaultTimeout)))]

\* a check that takes only an absent URL, not an empty one, as missing
MissingWebhook_absentOnly(this) == Falsy(this.override) /\ this.webhookUrl = Undefined

\* if (!this.override && !this.webhookUrl) throw
MissingWebhook(this) == Falsy(this.override) /\ Falsy(this.webhookUrl)

N8NToolMissingError ==
    [name |-> "Error",
     message |-> "Missing " \o envVarWebhookUrl \o " environment variable. " \o
                 "Please configure your N8N webhook URL in the environment settings."]

JobSearchToolMissingError ==
    [name |-> "Error",
     message |-> "Missing " \o envVarJobSearchWebhookUrl \o " or " \o envVarWebhookUrl \o
                 " environment variable. " \o
                 "Please configure your N8N job search webhook URL in the environment settings."]

\* new N8NTool(fields)
N8NTool_constructor ==
    /\ tool = NoTool
    /\ ctorErr = None
    /\ LET this == N8NToolConfig(fields, env)
       IN  IF MissingWebhook(this)
           THEN ctorErr' = N8NToolMissingError /\ tool' = tool
           ELSE tool' = this /\ ctorErr' = ctorErr
    /\ UNCHANGED <<fields, env, calls, network, clock>>

\* new JobSearchTool(fields)
JobSearchTool_constructor ==
    /\ tool = NoTool
    /\ ctorErr = None
    /\ LET this == JobSearchToolConfig(fields, env)
       IN  IF MissingWebhook(this)
           THEN ctorErr' = JobSearchToolMissingError /\ tool' = tool
           ELSE tool' = this /\ ctorErr' = ctorErr
    /\ UNCHANGED <<fields, env, calls, network, clock>>

(***************************************************************************)
(* _call.  The code up to `await axios.post(...)` runs without             *)
(* interruption; the code after it runs when the POST has settled.         *)
(***************************************************************************)
MaxCalls == 2

N8NInputs ==
    { Obj([workflow_data |-> Obj([position |-> Str("dev"),
                                  utm |-> Obj([src |-> Str("ad")])])]),
      Obj([workflow_data |-> Obj([position |-> Str("dev"),
                                  skills |-> Arr(<<Str("js")>>),
                                  salary_min |-> Num(1000),
                                  remote |-> Bool(TRUE)]),
           workflow_name |-> Str("wf")]),
      Obj([workflow_data |-> EmptyObj, workflow_name |-> Str("")]),
      EmptyObj,
      Obj([workflow_data |-> Obj([position |-> Num(5)]), workflow_name |-> Num(7)]) }

JobSearchInputs ==
    { Obj([query |-> Str("dev in Tbilisi")]),
      Obj([query |-> Str("")]),
      EmptyObj,
      Obj([query |-> Num(5)]) }

\* new Date().toISOString() at the n-th reading of the clock
toISOString(n) == Str("T" \o ToString(n))

\* headers that carry Authorization whether or not there is an API key
Headers_always(this) ==
    Obj(("Content-Type" :> Str("application/json")) @@
        ("Authorization" :> Str("Bearer " \o Template(this.apiKey))))

\* the headers object of the request
Headers(this) ==
    IF Truthy(this.apiKey)
    THEN Obj(("Content-Type" :> Str("application/json")) @@
             ("Authorization" :> Str("Bearer " \o Template(this.apiKey))))
    ELSE Obj("Content-Type" :> Str("application/json"))

\* axios.post(url, data, config) as called by N8NTool._call
N8NToolRequest(this, workflow_data, workflow_name, now) ==
    [url |-> this.webhookUrl,
     data |-> Obj([data |-> workflow_data,
                   workflow |-> workflow_name,
                   timestamp |-> toISOString(now),
                   source |-> Str("librechat")]),
     config |-> [headers |-> Headers(this), timeout |-> this.timeout]]

\* axios.post(url, data, config) as called by JobSearchTool._call
JobSearchToolRequest(this, query) ==
    [url |-> this.webhookUrl,
     data |-> Obj([query |-> query]),
     config |-> [headers |-> Headers(this), timeout |-> this.timeout]]

\* a POST that is sent again after the first attempt
Post_retried(i, request) ==
    <<[call |-> i, request |-> request], [call |-> i, request |-> request]>>

\* the POST requests one axios.post call of invocation i puts on the network
Post(i, request) == <<[call |-> i, request |-> request]>>

\* the request body on the wire: axios serializes the data object as JSON
Body(request) == JSON_stringify(request.data)

Return(value) == [type |-> "return", value |-> value]
Throw(error) == [type |-> "throw", value |-> error]

NewCall(input, pc, request, completion) ==
    [input |-> input, pc |-> pc, request |-> request, outcome |-> None,
     completion |-> completion]

\* N8NTool._call(input), to the await
N8NTool_call(input) ==
    /\ tool # NoTool
    /\ tool.class = "N8NTool"
    /\ Len(calls) < MaxCalls
    /\ LET validationResult == safeParse(N8NSchema, input)
           i == Len(calls) + 1
       IN  IF ~validationResult.success
           THEN /\ calls' = Append(calls,
                      NewCall(input, "raised", None,
                              Throw(ValidationError(validationResult.error.issues))))
                /\ UNCHANGED <<network, clock>>
           ELSE LET workflow_data == Get(validationResult.data.v, "workflow_data")
                    workflow_name == Get(validationResult.data.v, "workflow_name")
                    request == N8NToolRequest(tool, workflow_data, workflow_name, clock + 1)
                IN  /\ clock' = clock + 1
                    /\ network' = network \o Post(i, request)
                    /\ calls' = Append(calls, NewCall(input, "awaiting", request, None))
    /\ UNCHANGED <<fields, env, tool, ctorErr>>

\* JobSearchTool._call(input), to the await
JobSearchTool_call(input) ==
    /\ tool # NoTool
    /\ tool.class = "JobSearchTool"
    /\ Len(calls) < MaxCalls
    /\ LET validationResult == safeParse(JobSearchSchema, input)
           i == Len(calls) + 1
       IN  IF ~validationResult.success
           THEN /\ calls' = Append(calls,
                      NewCall(input, "raised", None,
                              Throw(ValidationError(validationResult.error.issues))))
                /\ UNCHANGED network
           ELSE LET query == Get(validationResult.data.v, "query")
                    request == JobSearchToolRequest(tool, query)
                IN  /\ network' = network \o Post(i, request)
                    /\ calls' = Append(calls, NewCall(input, "awaiting", request, None))
    /\ UNCHANGED <<fields, env, tool, ctorErr, clock>>

(***************************************************************************)
(* How the awaited POST can settle.  axios fulfils the promise with the    *)
(* response of a 2xx status and rejects it with an error otherwise; an     *)
(* error has a code, a message, the name of its constructor and, when a    *)
(* response arrived, that response.  The endpoint either answers with a    *)
(* fixed list of jobs or echoes the data it received as {data}.            *)
(***************************************************************************)
Response(status, statusText, data) ==
    [t |-> "object", status |-> status, statusText |-> statusText, data |-> data]

JobsBody == Obj([jobs |-> Arr(<<Num(1), Num(2), Num(3)>>)])

EchoBody(request) ==
    Serial(Obj([data |-> Get(JSON_parse(Body(request)).v, "data")]))

Fulfilled(request) ==
    { [ok |-> TRUE, response |-> Response(200, "OK", JobsBody)],
      [ok |-> TRUE, response |-> Response(201, "Created", EchoBody(request))] }

ServerError == Response(500, "Internal Server Error", Obj([error |-> Str("boom")]))

ErrorOf(code, response) ==
    [code |-> code,
     response |-> response,
     message |-> Str(IF code = Undefined THEN "socket hang up"
                     ELSE IF response # Undefined
                     THEN "Request failed with status code " \o ToString(response.status)
                     ELSE code.v),
     constructor |-> IF code = Undefined THEN "Error" ELSE "AxiosError"]

Rejected ==
    { [ok |-> FALSE, error |-> ErrorOf(Str("ECONNABORTED"), Undefined)],
      [ok |-> FALSE, error |-> ErrorOf(Str("ECONNABORTED"), ServerError)],
      [ok |-> FALSE, error |-> ErrorOf(Str("ENOTFOUND"), Undefined)],
      [ok |-> FALSE, error |-> ErrorOf(Str("ECONNREFUSED"), ServerError)],
      [ok |-> FALSE, error |-> ErrorOf(Str("ERR_BAD_RESPONSE"), ServerError)],
      [ok |-> FALSE, error |-> ErrorOf(Undefined, Undefined)] }

PostOutcomes(request) == Fulfilled(request) \cup Rejected

\* a success return that takes the workflow name from a field of the instance
\* which every invocation overwrites before its POST
N8NTool_success_sharedName(workflow_name, response, now) ==
    LET posted == {j \in DOMAIN calls : calls[j].request # None}
        last == CHOOSE j \in posted : \A k \in posted : k <= j
    IN  Return(JSON_stringify(Obj(
            [success |-> Bool(TRUE),
             workflow |-> OrElse(Get(calls[last].request.data.v, "workflow"),
                                 Str("default")),
             result |-> response.data,
             executedAt |-> toISOString(now),
             status |-> Num(response.status)])))

\* the try block of N8NTool._call after the await
N8NTool_success(workflow_name, response, now) ==
    Return(JSON_stringify(Obj(
        [success |-> Bool(TRUE),
         workflow |-> OrElse(workflow_name, Str("default")),
         result |-> response.data,
         executedAt |-> toISOString(now),
         status |-> Num(response.status)])))

\* the envelope of a timeout (N8NTool)
N8NTool_timeout(this) ==
    Obj([success |-> Bool(FALSE),
         error |-> Str("Workflow execution timeout"),
         message |-> Str("The N8N workflow did not complete within " \o
                         Template(this.timeout) \o
                         "ms. The workflow may still be running on N8N."),
         timeout |-> this.timeout])

\* the envelope of a network error (N8NTool)
N8NTool_unreachable(this) ==
    Obj([success |-> Bool(FALSE),
         error |-> Str("Cannot reach N8N server"),
         message |-> Str("Unable to connect to the N8N webhook URL. Please check " \o
                         "your N8N instance is running and the URL is correct."),
         webhookUrl |-> this.webhookUrl])

\* the envelope of an HTTP error (N8NTool)
N8NTool_httpError(error) ==
    Obj([success |-> Bool(FALSE),
         error |-> Str("N8N workflow execution failed"),
         message |-> error.message,
         status |-> Num(error.response.status),
         statusText |-> Str(error.response.statusText),
         details |-> error.response.data])

\* the envelope of an unknown error (N8NTool)
N8NTool_unknown(error) ==
    Obj([success |-> Bool(FALSE),
         error |-> Str("Unknown error occurred"),
         message |-> error.message,
         type |-> Str(error.constructor)])

\* a catch block that looks at error.response before error.code
N8NTool_catch_responseFirst(this, error) ==
    IF Truthy(error.response)
    THEN Return(JSON_stringify(N8NTool_httpError(error)))
    ELSE IF error.code = Str("ECONNABORTED")
    THEN Return(JSON_stringify(N8NTool_timeout(this)))
    ELSE IF error.code = Str("ENOTFOUND") \/ error.code = Str("ECONNREFUSED")
    THEN Return(JSON_stringify(N8NTool_unreachable(this)))
    ELSE Return(JSON_stringify(N8NTool_unknown(error)))

\* the catch block of N8NTool._call
N8NTool_catch(this, error) ==
    IF error.code = Str("ECONNABORTED")
    THEN Return(JSON_stringify(N8NTool_timeout(this)))
    ELSE IF error.code = Str("ENOTFOUND") \/ error.code = Str("ECONNREFUSED")
    THEN Return(JSON_stringify(N8NTool_unreachable(this)))
    ELSE IF Truthy(error.response)
    THEN Return(JSON_stringify(N8NTool_httpError(error)))
    ELSE Return(JSON_stringify(N8NTool_unknown(error)))

\* a success return that wraps the upstream body like N8NTool does
JobSearchTool_success_wrapped(response) ==
    Return(JSON_stringify(Obj([success |-> Bool(TRUE), result |-> response.data])))

\* the try block of JobSearchTool._call after the await
JobSearchTool_success(response) == Return(JSON_stringify(response.data))

\* the envelope of a timeout (JobSearchTool)
JobSearchTool_timeout(this) ==
    Obj([success |-> Bool(FALSE),
         error |-> Str("Job search timeout"),
         message |-> Str("The job search did not complete within " \o
                         Template(this.timeout) \o
                         "ms. Please try again with more specific criteria."),
         timeout |-> this.timeout])

\* the envelope of a network error (JobSearchTool)
JobSearchTool_unreachable(this) ==
    Obj([success |-> Bool(FALSE),
         error |-> Str("Cannot reach job search service"),
         message |-> Str("Unable to connect to the job search service. " \o
                         "Please try again later."),
         webhookUrl |-> this.webhookUrl])

\* the envelope of an HTTP error (JobSearchTool)
JobSearchTool_httpError(error) ==
    Obj([success |-> Bool(FALSE),
         error |-> Str("Job search failed"),
         message |-> error.message,
         status |-> Num(error.response.status),
         statusText |-> Str(error.response.statusText),
         details |-> error.response.data])

\* the envelope of an unknown error (JobSearchTool)
JobSearchTool_unknown(error) ==
    Obj([success |-> Bool(FALSE),
         error |-> Str("Unknown error occurred"),
         message |-> error.message,
         type |-> Str(error.constructor)])

\* a catch block that rethrows what it does not recognize
JobSearchTool_catch_rethrow(this, error) ==
    IF error.code = Str("ECONNABORTED")
    THEN Return(JSON_stringify(JobSearchTool_timeout(this)))
    ELSE IF error.code = Str("ENOTFOUND") \/ error.code = Str("ECONNREFUSED")
    THEN Return(JSON_stringify(JobSearchTool_unreachable(this)))
    ELSE IF Truthy(error.response)
    THEN Return(JSON_stringify(JobSearchTool_httpError(error)))
    ELSE Throw(error)

\* the catch block of JobSearchTool._call
JobSearchTool_catch(this, error) ==
    IF error.code = Str("ECONNABORTED")
    THEN Return(JSON_stringify(JobSearchTool_timeout(this)))
    ELSE IF error.code = Str("ENOTFOUND") \/ error.code = Str("ECONNREFUSED")
    THEN Return(JSON_stringify(JobSearchTool_unreachable(this)))
    ELSE IF Truthy(error.response)
    THEN Return(JSON_stringify(JobSearchTool_httpError(error)))
    ELSE Return(JSON_stringify(JobSearchTool_unknown(error)))

\* the ways the POST awaited by invocation i can settle
Settlements(i) ==
    IF calls[i].pc = "awaiting" THEN PostOutcomes(calls[i].request) ELSE {}

PcOf(completion) == IF completion.type = "return" THEN "returned" ELSE "raised"

Settle(call, outcome, completion) ==
    [call EXCEPT !.pc = PcOf(completion), !.outcome = outcome,
                 !.completion = completion]

\* N8NTool._call of invocation i, from the await: the POST settles with outcome
N8NTool_call_resume(i, outcome) ==
    /\ tool # NoTool
    /\ tool.class = "N8NTool"
    /\ i \in DOMAIN calls
    /\ outcome \in Settlements(i)
    /\ LET workflow_name == Get(calls[i].request.data.v, "workflow")
       IN  IF outcome.ok
           THEN /\ clock' = clock + 1
                /\ calls' = [calls EXCEPT ![i] = Settle(@, outcome,
                        N8NTool_success(workflow_name, outcome.response, clock + 1))]
           ELSE /\ clock' = clock
                /\ calls' = [calls EXCEPT ![i] = Settle(@, outcome,
                        N8NTool_catch(tool, outcome.error))]
    /\ UNCHANGED <<fields, env, tool, ctorErr, network>>

\* JobSearchTool._call of invocation i, from the await: the POST settles with outcome
JobSearchTool_call_resume(i, outcome) ==
    /\ tool # NoTool
    /\ tool.class = "JobSearchTool"
    /\ i \in DOMAIN calls
    /\ outcome \in Settlements(i)
    /\ calls' = [calls EXCEPT ![i] = Settle(@, outcome,
            IF outcome.ok THEN JobSearchTool_success(outcome.response)
            ELSE JobSearchTool_catch(tool, outcome.error))]
    /\ UNCHANGED <<fields, env, tool, ctorErr, network, clock>>

(***************************************************************************)
(* The configurations explored.  Spec takes a few configurations and       *)
(* follows the invocations; SpecConfig takes every combination of absent,  *)
(* empty and present sources and follows construction only.                *)
(***************************************************************************)
Url == Str("https://n8n.example/webhook/jobs")

FieldsOf(wh, js, key, to, ov) ==
    (envVarWebhookUrl :> wh) @@ (envVarJobSearchWebhookUrl :> js) @@
    (envVarApiKey :> key) @@ (envVarTimeout :> to) @@ ("override" :> ov)

EnvOf(wh, js, key, to) ==
    (envVarWebhookUrl :> wh) @@ (envVarJobSearchWebhookUrl :> js) @@
    (envVarApiKey :> key) @@ (envVarTimeout :> to)

Start ==
    /\ tool = NoTool
    /\ ctorErr = None
    /\ calls = <<>>
    /\ network = <<>>
    /\ clock = 0

NoEnv == EnvOf(Undefined, Undefined, Undefined, Undefined)

\* <<fields, env>>: a webhook URL with each API key, with each source of the
\* timeout, and no webhook URL without and with the override flag
Configurations ==
    { <<FieldsOf(Url, Undefined, key, Undefined, Undefined), NoEnv>> :
        key \in {Undefined, Str(""), Str("secret")} }
    \cup
    { <<FieldsOf(Url, Undefined, Undefined, Num(50), Undefined), NoEnv>>,
      <<FieldsOf(Url, Undefined, Undefined, Undefined, Undefined),
        EnvOf(Undefined, Undefined, Undefined, Str("75"))>> }
    \cup
    { <<FieldsOf(Undefined, Undefined, Undefined, Undefined, ov), NoEnv>> :
        ov \in {Undefined, Bool(TRUE)} }

Init ==
    /\ \E c \in Configurations : fields = c[1] /\ env = c[2]
    /\ Start

Next ==
    \/ N8NTool_constructor
    \/ JobSearchTool_constructor
    \/ \E input \in N8NInputs : N8NTool_call(input)
    \/ \E input \in JobSearchInputs : JobSearchTool_call(input)
    \/ \E i \in DOMAIN calls : \E outcome \in Settlements(i) :
          N8NTool_call_resume(i, outcome)
    \/ \E i \in DOMAIN calls : \E outcome \in Settlements(i) :
          JobSearchTool_call_resume(i, outcome)

Spec == Init /\ [][Next]_vars

UrlOfFields == Str("https://n8n.example/webhook/fields")
UrlOfEnv == Str("https://n8n.example/webhook/env")
JobUrlOfFields == Str("https://n8n.example/webhook/job-fields")
JobUrlOfEnv == Str("https://n8n.example/webhook/job-env")

InitConfig ==
    /\ fields \in { FieldsOf(wh, js, key, to, ov) :
                      wh \in {Undefined, Str(""), UrlOfFields},
                      js \in {Undefined, Str(""), JobUrlOfFields},
                      key \in {Undefined, Str("secret")},
                      to \in {Undefined, Num(50)},
                      ov \in {Undefined, Bool(FALSE), Bool(TRUE)} }
    /\ env \in { EnvOf(wh, js, key, to) :
                      wh \in {Undefined, Str(""), UrlOfEnv},
                      js \in {Undefined, Str(""), JobUrlOfEnv},
                      key \in {Undefined, Str(""), Str("env-secret")},
                      to \in {Undefined, Str("75")} }
    /\ Start

NextConfig ==
    \/ N8NTool_constructor
    \/ JobSearchTool_constructor

SpecConfig == InitConfig /\ [][NextConfig]_vars

(***************************************************************************)
(* Properties.                                                             *)
(***************************************************************************)
\* the types the documentation of the tools gives to their inputs
RecognizedString == {"position", "location", "experience_level", "job_type"}
RecognizedNumber == {"salary_min", "salary_max"}

IsCriteria(x) ==
    /\ x.t = "object"
    /\ \A k \in DOMAIN x.v :
         /\ k \in RecognizedString => x.v[k].t \in {"string", "undefined"}
         /\ k \in RecognizedNumber => x.v[k].t \in {"number", "undefined"}
         /\ k = "remote" => x.v[k].t \in {"boolean", "undefined"}
         /\ k = "skills" =>
              \/ x.v[k].t = "undefined"
              \/ x.v[k].t = "array" /\ \A n \in DOMAIN x.v[k].v : x.v[k].v[n].t = "string"

IsN8NInput(x) ==
    /\ x.t = "object"
    /\ IsCriteria(Get(x.v, "workflow_data"))
    /\ Get(x.v, "workflow_name").t \in {"string", "undefined"}

IsJobSearchInput(x) ==
    /\ x.t = "object"
    /\ Get(x.v, "query").t = "string"

\* the inputs the schema of the constructed adapter admits
Admitted(x) ==
    IF tool.class = "N8NTool" THEN IsN8NInput(x) ELSE IsJobSearchInput(x)

EventsOf(i) == {k \in DOMAIN network : network[k].call = i}

Settled(i) == calls[i].pc # "awaiting"

Failed(i) == Settled(i) /\ calls[i].outcome # None /\ ~calls[i].outcome.ok

Succeeded(i) == Settled(i) /\ calls[i].outcome # None /\ calls[i].outcome.ok

\* the value denoted by the JSON string invocation i returned
Returned(i) == JSON_parse(calls[i].completion.value)

HasPrefix(str, prefix) ==
    Len(str) >= Len(prefix) /\ SubSeq(str, 1, Len(prefix)) = prefix

\* C1: an invocation of either adapter whose input passed validation never
\* raises: however the POST settles, and also without an endpoint URL under the
\* override flag, it ends by returning a JSON string, and that string is an
\* envelope with success = false whenever the POST did not succeed.
C1_ValidatedCallReturns ==
    \A i \in DOMAIN calls :
        (Admitted(calls[i].input) /\ Settled(i)) =>
            /\ calls[i].pc = "returned"
            /\ calls[i].completion.type = "return"
            /\ IsJsonString(calls[i].completion.value)
            /\ ~calls[i].outcome.ok =>
                  /\ Returned(i).t = "object"
                  /\ Get(Returned(i).v, "success") = Bool(FALSE)

C1_Witness ==
    \E i \in DOMAIN calls :
        /\ calls[i].pc = "returned"
        /\ ~calls[i].outcome.ok
        /\ tool.webhookUrl = Undefined
        /\ tool.override = Bool(TRUE)

\* C2: an input that fails the schema makes _call raise the validation error
\* "Input validation failed: ..." and no POST is issued for that invocation;
\* every POST on the network belongs to an invocation whose input is valid.
C2_NoPostWithoutValidation ==
    /\ \A k \in DOMAIN network :
         /\ network[k].call \in DOMAIN calls
         /\ Admitted(calls[network[k].call].input)
    /\ \A i \in DOMAIN calls :
         ~Admitted(calls[i].input) =>
            /\ calls[i].pc = "raised"
            /\ calls[i].completion.type = "throw"
            /\ HasPrefix(calls[i].completion.value.message, "Input validation failed: ")
            /\ EventsOf(i) = {}

C2_Witness ==
    /\ Len(calls) = 2
    /\ calls[1].pc = "returned"
    /\ calls[2].pc = "raised"
    /\ Len(network) = 1

\* the class whose constructor has run
Constructed == IF tool # NoTool THEN tool.class
               ELSE IF ctorErr = N8NToolMissingError THEN "N8NTool"
               ELSE IF ctorErr = JobSearchToolMissingError THEN "JobSearchTool"
               ELSE "none"

AbsentOrEmpty(x) == x = Undefined \/ x = Str("")

\* no endpoint URL in any source the class reads
NoEndpoint(class) ==
    /\ AbsentOrEmpty(Get(fields, "N8N_WEBHOOK_URL"))
    /\ AbsentOrEmpty(Get(env, "N8N_WEBHOOK_URL"))
    /\ class = "JobSearchTool" =>
         /\ AbsentOrEmpty(Get(fields, "N8N_JOB_SEARCH_WEBHOOK_URL"))
         /\ AbsentOrEmpty(Get(env, "N8N_JOB_SEARCH_WEBHOOK_URL"))

OverrideSet == Get(fields, "override") = Bool(TRUE)

\* C3: construction of either adapter fails with the configuration error
\* whenever no endpoint URL is given (absent or empty in the fields and in the
\* environment) and the override flag is not set, and then no instance exists;
\* with the override flag set construction succeeds even without a URL.
C3_ConstructionNeedsEndpoint ==
    Constructed # "none" =>
        /\ (NoEndpoint(Constructed) /\ ~OverrideSet) =>
              /\ tool = NoTool
              /\ ctorErr # None
              /\ HasPrefix(ctorErr.message, "Missing ")
        /\ OverrideSet => (tool # NoTool /\ ctorErr = None)

C3_Witness ==
    /\ ctorErr = JobSearchToolMissingError
    /\ tool = NoTool
    /\ Get(fields, "N8N_JOB_SEARCH_WEBHOOK_URL") = Str("")
    /\ Get(env, "N8N_WEBHOOK_URL") = Str("")
    /\ NoEndpoint("JobSearchTool")

HasSuffix(str, suffix) ==
    Len(str) >= Len(suffix) /\
    SubSeq(str, Len(str) - Len(suffix) + 1, Len(str)) = suffix

\* the envelope invocation i returned, as a function from its keys
Envelope(i) == Returned(i).v

\* C4: a failed POST is mapped to exactly one failure envelope, the first
\* kind that matches in the order timeout (code ECONNABORTED), unreachable
\* (code ENOTFOUND or ECONNREFUSED; carries the endpoint URL), upstream (a
\* response is attached; carries status, statusText and the upstream body),
\* unknown (carries the error message and the error's constructor name).
C4_FailureTaxonomy ==
    \A i \in DOMAIN calls :
        Failed(i) =>
            LET e == calls[i].outcome.error
                r == Envelope(i)
            IN  /\ Returned(i).t = "object"
                /\ r["success"] = Bool(FALSE)
                /\ IF e.code = Str("ECONNABORTED")
                   THEN /\ DOMAIN r = {"success", "error", "message", "timeout"}
                        /\ r["error"] \in {Str("Workflow execution timeout"),
                                           Str("Job search timeout")}
                   ELSE IF e.code \in {Str("ENOTFOUND"), Str("ECONNREFUSED")}
                   THEN /\ DOMAIN r \ {"webhookUrl"} = {"success", "error", "message"}
                        /\ r["error"] \in {Str("Cannot reach N8N server"),
                                           Str("Cannot reach job search service")}
                        /\ tool.webhookUrl # Undefined =>
                              /\ "webhookUrl" \in DOMAIN r
                              /\ r["webhookUrl"] = tool.webhookUrl
                   ELSE IF e.response # Undefined
                   THEN /\ DOMAIN r = {"success", "error", "message",
                                       "status", "statusText", "details"}
                        /\ r["error"] \in {Str("N8N workflow execution failed"),
                                           Str("Job search failed")}
                        /\ r["status"] = Num(e.response.status)
                        /\ r["statusText"] = Str(e.response.statusText)
                        /\ r["details"] = e.response.data
                   ELSE /\ DOMAIN r = {"success", "error", "message", "type"}
                        /\ r["error"] = Str("Unknown error occurred")
                        /\ r["message"] = e.message
                        /\ r["type"] = Str(e.constructor)

C4_Witness ==
    \E i \in DOMAIN calls :
        /\ Failed(i)
        /\ calls[i].outcome.error.code = Str("ECONNABORTED")
        /\ calls[i].outcome.error.response # Undefined
        /\ "timeout" \in DOMAIN Envelope(i)
        /\ "status" \notin DOMAIN Envelope(i)

\* the timeout as configured: the constructor field, else the environment
\* variable N8N_TIMEOUT (a string, as the environment gives it), else 30000
ConfiguredTimeout ==
    IF Get(fields, "N8N_TIMEOUT") # Undefined THEN Get(fields, "N8N_TIMEOUT")
    ELSE IF Get(env, "N8N_TIMEOUT") # Undefined THEN Get(env, "N8N_TIMEOUT")
    ELSE Num(30000)

\* C5: when the request times out, the invocation returns an envelope with
\* success = false, an error naming a timeout, and timeout equal to the
\* configured timeout, whether that came from the constructor field, from
\* N8N_TIMEOUT in the environment or from the default 30000; the request was
\* sent with that same timeout.
C5_TimeoutEnvelope ==
    \A i \in DOMAIN calls :
        (Failed(i) /\ calls[i].outcome.error.code = Str("ECONNABORTED")) =>
            /\ Returned(i).t = "object"
            /\ Envelope(i)["success"] = Bool(FALSE)
            /\ HasSuffix(Envelope(i)["error"].v, "timeout")
            /\ Envelope(i)["timeout"] = ConfiguredTimeout
            /\ calls[i].request.config.timeout = ConfiguredTimeout

C5_Witness ==
    \E i \in DOMAIN calls :
        /\ Failed(i)
        /\ calls[i].outcome.error.code = Str("ECONNABORTED")
        /\ calls[i].outcome.error.response = Undefined
        /\ Get(env, "N8N_TIMEOUT") = Str("75")
        /\ Envelope(i)["timeout"] = Str("75")

\* the workflow name of an input, if it has one that is not empty
GivenWorkflow(input) ==
    LET name == Get(input.v, "workflow_name")
    IN  IF name.t = "string" /\ name.v # "" THEN name ELSE Str("default")

Criteria(i) == calls[i].input.v["workflow_data"]

\* the request body as the endpoint receives it
Received(request) == JSON_parse(Body(request)).v

\* C7: for every valid criteria object C, fields outside the recognized set
\* included, the body of the outbound request carries data equal to C, and
\* against an endpoint that echoes the received data as {data} the returned
\* envelope's result.data equals C.
C7_CriteriaRoundTrip ==
    \A i \in DOMAIN calls :
        (tool.class = "N8NTool" /\ IsN8NInput(calls[i].input)) =>
            /\ \A k \in EventsOf(i) : Received(network[k].request)["data"] = Criteria(i)
            /\ (Succeeded(i) /\
                calls[i].outcome.response.data = EchoBody(calls[i].request)) =>
                  Envelope(i)["result"].v["data"] = Criteria(i)

C7_Witness ==
    \E i \in DOMAIN calls :
        /\ tool.class = "N8NTool"
        /\ Succeeded(i)
        /\ calls[i].outcome.response.status = 201
        /\ "utm" \in DOMAIN Criteria(i).v
        /\ Envelope(i)["result"].v["data"].v["utm"] = Obj([src |-> Str("ad")])

\* the API key as configured: the constructor field, else the environment
ConfiguredKey ==
    IF Get(fields, "N8N_API_KEY") # Undefined THEN Get(fields, "N8N_API_KEY")
    ELSE Get(env, "N8N_API_KEY")

KeyConfigured == ConfiguredKey.t = "string" /\ ConfiguredKey.v # ""

\* C8: every outbound POST carries Content-Type: application/json, and it
\* carries Authorization: Bearer <key> exactly when an API key is configured,
\* with <key> the configured key; without a key there is no Authorization
\* header.
C8_AuthorizationHeader ==
    \A k \in DOMAIN network :
        LET headers == network[k].request.config.headers.v
        IN  /\ "Content-Type" \in DOMAIN headers
            /\ headers["Content-Type"] = Str("application/json")
            /\ KeyConfigured <=> "Authorization" \in DOMAIN headers
            /\ KeyConfigured =>
                  headers["Authorization"] = Str("Bearer " \o ConfiguredKey.v)

C8_Witness ==
    \E k \in DOMAIN network :
        /\ ConfiguredKey = Str("secret")
        /\ network[k].request.config.headers.v["Authorization"] = Str("Bearer secret")

\* C9: an invocation issues exactly one POST when its input is valid and none
\* otherwise, and no further one after a timeout, a connection failure, a
\* non-2xx response or any other error.
C9_SinglePost ==
    \A i \in DOMAIN calls :
        Cardinality(EventsOf(i)) = IF Admitted(calls[i].input) THEN 1 ELSE 0

C9_Witness ==
    \E i \in DOMAIN calls :
        /\ Failed(i)
        /\ calls[i].outcome.error.code = Str("ECONNREFUSED")
        /\ Cardinality(EventsOf(i)) = 1
        /\ Len(network) = Cardinality({j \in DOMAIN calls : calls[j].request # None})

RaisedValidation(i) ==
    /\ calls[i].pc = "raised"
    /\ calls[i].completion.type = "throw"
    /\ HasPrefix(calls[i].completion.value.message, "Input validation failed: ")
    /\ EventsOf(i) = {}

NonEmptyString(x) == x.t = "string" /\ x.v # ""

\* C10 as stated: JobSearchTool accepts an input only when query is a
\* non-empty string; a missing, non-string or empty query raises the
\* validation error and sends no request.
C10_NonEmptyQueryRequired ==
    \A i \in DOMAIN calls :
        (tool.class = "JobSearchTool" /\
         ~NonEmptyString(Get(calls[i].input.v, "query"))) => RaisedValidation(i)

\* C10 (amended): JobSearchTool accepts an input exactly when query is
\* present and is a string: a missing or non-string query raises the
\* validation error and sends no request, while the empty string is accepted
\* and posted as {query: ""}.
C10_QueryMustBeString ==
    \A i \in DOMAIN calls :
        tool.class = "JobSearchTool" =>
            IF Get(calls[i].input.v, "query").t = "string"
            THEN /\ calls[i].pc \in {"awaiting", "returned"}
                 /\ \E k \in EventsOf(i) :
                       Received(network[k].request) =
                           [query |-> Get(calls[i].input.v, "query")]
            ELSE RaisedValidation(i)

C10_Witness ==
    \E i \in DOMAIN calls :
        /\ tool.class = "JobSearchTool"
        /\ calls[i].input = Obj([query |-> Str("")])
        /\ calls[i].pc = "returned"
        /\ \E k \in EventsOf(i) : Received(network[k].request)["query"] = Str("")

\* the first of four sources that is not the empty string, undefined if none
FirstNonEmpty(a, b, c, d) ==
    IF ~AbsentOrEmpty(a) THEN a
    ELSE IF ~AbsentOrEmpty(b) THEN b
    ELSE IF ~AbsentOrEmpty(c) THEN c
    ELSE IF ~AbsentOrEmpty(d) THEN d
    ELSE Undefined

\* the first of four sources that is set, be it to the empty string
FirstSet(a, b, c, d) ==
    IF a # Undefined THEN a
    ELSE IF b # Undefined THEN b
    ELSE IF c # Undefined THEN c
    ELSE d

JobSearchToolBuilt == tool # NoTool /\ tool.class = "JobSearchTool"

\* C11 as stated: JobSearchTool takes its endpoint URL from the first
\* non-empty source in the order N8N_JOB_SEARCH_WEBHOOK_URL of the
\* environment, N8N_WEBHOOK_URL of the environment, then the constructor
\* fields of the same names; an empty source is skipped.
C11_EnvFirstNonEmpty ==
    JobSearchToolBuilt =>
        tool.webhookUrl =
            FirstNonEmpty(Get(env, "N8N_JOB_SEARCH_WEBHOOK_URL"),
                          Get(env, "N8N_WEBHOOK_URL"),
                          Get(fields, "N8N_JOB_SEARCH_WEBHOOK_URL"),
                          Get(fields, "N8N_WEBHOOK_URL"))

\* the endpoint URL JobSearchTool resolves from its sources
ResolvedJobSearchUrl ==
    FirstSet(Get(fields, "N8N_JOB_SEARCH_WEBHOOK_URL"),
             Get(env, "N8N_JOB_SEARCH_WEBHOOK_URL"),
             Get(fields, "N8N_WEBHOOK_URL"),
             Get(env, "N8N_WEBHOOK_URL"))

\* C11 (amended): JobSearchTool takes its endpoint URL from the first source
\* that is set, in the order N8N_JOB_SEARCH_WEBHOOK_URL of the fields, of the
\* environment, then N8N_WEBHOOK_URL of the fields, of the environment.  A
\* source set to the empty string is taken, not skipped: the instance then
\* has the empty URL under the override flag, and construction fails without
\* it even when a later source holds a URL.
C11_FieldsFirstSet ==
    /\ JobSearchToolBuilt => tool.webhookUrl = ResolvedJobSearchUrl
    /\ (Constructed = "JobSearchTool" /\ ~OverrideSet) =>
          (AbsentOrEmpty(ResolvedJobSearchUrl) <=> tool = NoTool)

C11_Witness ==
    /\ JobSearchToolBuilt
    /\ Get(fields, "N8N_JOB_SEARCH_WEBHOOK_URL") = Str("")
    /\ Get(env, "N8N_JOB_SEARCH_WEBHOOK_URL") = JobUrlOfEnv
    /\ tool.webhookUrl = Str("")

\* the object f without the keys in ks
Without(f, ks) == [k \in DOMAIN f \ ks |-> f[k]]

\* the endpoint URL as configured for the constructed adapter
ConfiguredUrl ==
    IF tool.class = "JobSearchTool" THEN ResolvedJobSearchUrl
    ELSE FirstSet(Get(fields, "N8N_WEBHOOK_URL"), Get(env, "N8N_WEBHOOK_URL"),
                  Undefined, Undefined)

ConfiguredOverride ==
    IF Get(fields, "override") # Undefined THEN Get(fields, "override") ELSE Bool(FALSE)

\* the headers the configuration asks for
ConfiguredHeaders ==
    IF KeyConfigured
    THEN Obj(("Content-Type" :> Str("application/json")) @@
             ("Authorization" :> Str("Bearer " \o ConfiguredKey.v)))
    ELSE Obj("Content-Type" :> Str("application/json"))

\* the adapter's configuration is what construction resolved
ConfigurationFixed ==
    /\ tool.webhookUrl = ConfiguredUrl
    /\ tool.apiKey = ConfiguredKey
    /\ tool.timeout = ConfiguredTimeout
    /\ tool.override = ConfiguredOverride

\* the request of invocation i is made of its own input and the configuration
OwnRequest(i, request) ==
    /\ request.url = ConfiguredUrl
    /\ request.config.timeout = ConfiguredTimeout
    /\ request.config.headers = ConfiguredHeaders
    /\ IF tool.class = "JobSearchTool"
       THEN Received(request) = [query |-> calls[i].input.v["query"]]
       ELSE /\ Received(request)["timestamp"].t = "string"
            /\ Without(Received(request), {"timestamp"}) =
                  Serial(Obj([data |-> Criteria(i),
                              workflow |-> Get(calls[i].input.v, "workflow_name"),
                              source |-> Str("librechat")])).v

\* what invocation i returned without its timestamp
Payload(i) ==
    IF Returned(i).t = "object" THEN Obj(Without(Envelope(i), {"executedAt"}))
    ELSE Returned(i)

\* the return of invocation i is made of its own input, its own outcome and
\* the configuration
OwnResult(i) ==
    /\ calls[i].completion.type = "return"
    /\ IF ~calls[i].outcome.ok
       THEN calls[i].completion =
               IF tool.class = "JobSearchTool"
               THEN JobSearchTool_catch(tool, calls[i].outcome.error)
               ELSE N8NTool_catch(tool, calls[i].outcome.error)
       ELSE IF tool.class = "JobSearchTool"
       THEN Returned(i) = calls[i].outcome.response.data
       ELSE /\ Envelope(i)["executedAt"].t = "string"
            /\ Payload(i) =
                  Obj([success |-> Bool(TRUE),
                       workflow |-> GivenWorkflow(calls[i].input),
                       result |-> calls[i].outcome.response.data,
                       status |-> Num(calls[i].outcome.response.status)])

\* C12: no invocation changes the configuration (endpoint URL, API key,
\* timeout, override), and under every interleaving of the invocations of one
\* instance the request and the returned string of each depend only on its
\* own input, the configuration and its own outcome, timestamps apart; two
\* invocations with the same input that got the same response return the
\* same payload apart from timestamps.
C12_InvocationsIndependent ==
    tool # NoTool =>
        /\ ConfigurationFixed
        /\ \A k \in DOMAIN network : OwnRequest(network[k].call, network[k].request)
        /\ \A i \in DOMAIN calls :
              /\ calls[i].request # None => OwnRequest(i, calls[i].request)
              /\ (Succeeded(i) \/ Failed(i)) => OwnResult(i)
        /\ \A i, j \in DOMAIN calls :
              (/\ Succeeded(i) /\ Succeeded(j)
               /\ calls[i].input = calls[j].input
               /\ calls[i].outcome.response = calls[j].outcome.response)
                  => Payload(i) = Payload(j)

C12_Witness ==
    /\ tool # NoTool
    /\ tool.class = "N8NTool"
    /\ Len(calls) = 2
    /\ Succeeded(1) /\ Succeeded(2)
    /\ calls[1].input = calls[2].input
    /\ "workflow_name" \in DOMAIN calls[1].input.v
    /\ calls[1].outcome.response = calls[2].outcome.response
    /\ calls[2].request.data.v["timestamp"] = Str("T2")
    /\ Envelope(2)["executedAt"] = Str("T3")
    /\ Envelope(1)["executedAt"] = Str("T4")
    /\ Payload(1) = Payload(2)

====
